---- MODULE Spec2Model ----
(***************************************************************************)
(* raylib::Model (include/Model.hpp): the RAII wrapper around the          *)
(* library's ::Model struct.  The model follows the nine fields of every   *)
(* Model object, how each load call of the library ended, and every call   *)
(* of ::UnloadModel.                                                       *)
(*                                                                         *)
(* A pointer is modelled by the allocation it points into: Null, or the    *)
(* number r of the library load call that returned it.                     *)
(***************************************************************************)
EXTENDS Integers, Sequences, FiniteSets, TLC

\* ------------------------------------------------------------------ bounds
NumObjs == 2        \* storage slots in which Model objects are built
MaxRes == 2         \* load calls the library answers
MaxCount == 1       \* largest meshCount / materialCount / boneCount loaded
MaxUnloads == 2     \* the UnloadModel tally per allocation saturates here
MaxMeshes == 3      \* largest meshCount GetTransformedBoundingBox is run on

\* --------------------------------------------------------------- constants
Null == 0           \* nullptr

Objs == 1..NumObjs
Res == 1..MaxRes
Transforms == {1, 2}            \* sample ::Matrix values the library returns
RawObjs == {1}                  \* the Model built and assigned from plain values
Coords == {-1, 1}               \* sample coordinates of a box corner
Extents == {<<0, 0, 0>>, <<1, 0, 2>>}   \* sample sizes (max - min) of a mesh box

VARIABLES
    live,       \* live[o]: a Model object exists in slot o
    obj,        \* obj[o]: the nine ::Model fields stored in slot o
    lib,        \* lib[r]: how the r-th library load call ended: "loaded" into a
                \* Model, "failed" (Load threw), or "raw" (the caller's own call)
    unloads,    \* unloads[r]: UnloadModel calls whose argument pointed into r
    last,       \* the operation executed last, with what it saw and did
    fresh,      \* fresh[o]: slot o was default-constructed and not written since
    raw,        \* a plain ::Model value the caller holds
    gtbb        \* one run of GetTransformedBoundingBox, statement by statement

lifecycle == <<live, obj, lib, unloads, last, fresh, raw>>
vars == <<live, obj, lib, unloads, last, fresh, raw, gtbb>>

\* ------------------------------------------------------------ ::Model values
\* The value-initialised struct: every count 0, every pointer null.
ZeroModel ==
    [transform |-> 0, meshCount |-> 0, materialCount |-> 0, meshes |-> Null,
     materials |-> Null, meshMaterial |-> Null, boneCount |-> 0, bones |-> Null,
     bindPose |-> Null]

\* The pointers of a ::Model value.
Pointers(m) == {m.meshes, m.materials, m.meshMaterial, m.bones, m.bindPose}

\* Whether the arrays of m are present wherever its counts are positive.
CountsAgree(m) ==
    /\ m.meshCount > 0 => m.meshes # Null
    /\ m.materialCount > 0 => m.materials # Null

\* What ::LoadModel / ::LoadModelFromMesh may return for the r-th load call:
\* fresh allocations only, an array present wherever its count is positive.
\* A complete model comes with or without a skeleton (bones and bindPose) and
\* under either transform.  The library answers MaxRes load calls.
LibModels(r) ==
    IF r \notin Res THEN {} ELSE
    { m \in { [ZeroModel EXCEPT !.transform = 1, !.meshCount = mc,
                                !.materialCount = tc, !.meshes = ms,
                                !.materials = ts, !.meshMaterial = mm] :
                mc \in {0, MaxCount}, tc \in {0, MaxCount},
                ms \in {Null, r}, ts \in {Null, r}, mm \in {Null, r} } :
        CountsAgree(m) }
    \cup
    { [ZeroModel EXCEPT !.transform = t, !.meshCount = MaxCount,
                        !.materialCount = MaxCount, !.meshes = r, !.materials = r,
                        !.meshMaterial = r, !.boneCount = bc,
                        !.bones = IF bc > 0 THEN r ELSE Null,
                        !.bindPose = IF bc > 0 THEN r ELSE Null] :
        t \in Transforms, bc \in {0, MaxCount} }

\* The load results the object-lifetime specifications draw from: a complete
\* model under either transform, and three failed loads (nothing allocated,
\* only the mesh array, only the material array).
LoadOutcomes(r) ==
    IF r \notin Res THEN {} ELSE
    { [ZeroModel EXCEPT !.transform = t, !.meshCount = MaxCount,
                        !.materialCount = MaxCount, !.meshes = r, !.materials = r,
                        !.meshMaterial = r, !.boneCount = MaxCount, !.bones = r,
                        !.bindPose = r] : t \in Transforms }
    \cup { [ZeroModel EXCEPT !.transform = 1],
           [ZeroModel EXCEPT !.transform = 1, !.meshCount = MaxCount, !.meshes = r],
           [ZeroModel EXCEPT !.transform = 1, !.materialCount = MaxCount,
                             !.materials = r] }

\* ::IsModelReady of the library, which IsReady forwards to.
IsModelReady(m) ==
    /\ m.meshes # Null
    /\ m.materials # Null
    /\ m.meshMaterial # Null
    /\ m.meshCount > 0
    /\ m.materialCount > 0

\* ------------------------------------------------------------ member functions
\* Model::set: the nine fields of *this after set(model).
set(self, model) ==
    [self EXCEPT !.transform = model.transform,
                 !.meshCount = model.meshCount,
                 !.materialCount = model.materialCount,
                 !.meshes = model.meshes,
                 !.materials = model.materials,
                 !.meshMaterial = model.meshMaterial,
                 !.boneCount = model.boneCount,
                 !.bones = model.bones,
                 !.bindPose = model.bindPose]

\* Model::IsReady.
IsReady(self) == IsModelReady(self)

\* The reset of other as it would be if it zeroed the counts alone.
MovedFromKeepsPointers(other) ==
    [other EXCEPT !.meshCount = 0, !.materialCount = 0, !.boneCount = 0]

\* The eight assignments to `other` that end both move operations.
MovedFrom(other) ==
    [other EXCEPT !.meshCount = 0,
                  !.materialCount = 0,
                  !.meshes = Null,
                  !.materials = Null,
                  !.meshMaterial = Null,
                  !.boneCount = 0,
                  !.bones = Null,
                  !.bindPose = Null]

\* Unload as it would be if it cleared meshes and forgot materials.
UnloadClearsMeshesOnly(self) ==
    IF self.meshes # Null \/ self.materials # Null
    THEN [self |-> [self EXCEPT !.meshes = Null], calls |-> <<self>>]
    ELSE [self |-> self, calls |-> <<>>]

\* Model::Unload: the fields afterwards, and the arguments of its UnloadModel calls.
Unload(self) ==
    IF self.meshes # Null \/ self.materials # Null
    THEN [self |-> [self EXCEPT !.meshes = Null, !.materials = Null],
          calls |-> <<self>>]
    ELSE [self |-> self, calls |-> <<>>]

\* Load as it would be if it tested IsReady() before storing the result.
LoadChecksBeforeStoring(self, loaded) ==
    [self |-> set(self, loaded), threw |-> ~IsReady(self)]

\* Model::Load (both overloads): the fields afterwards and whether it throws.
Load(self, loaded) ==
    LET stored == set(self, loaded)
    IN  [self |-> stored, threw |-> ~IsReady(stored)]

\* The move constructor as it would be without the reset of other.
MoveConstructCopyOnly(self, other) ==
    [self |-> set(self, other), other |-> other, calls |-> <<>>]

\* Model(Model&& other): the new object's and other's fields afterwards.
MoveConstruct(self, other) ==
    [self |-> set(self, other), other |-> MovedFrom(other), calls |-> <<>>]

\* Move assignment as it would be without the Unload() of the old contents.
MoveAssignNoUnload(self, other, sameObject) ==
    IF sameObject
    THEN [self |-> self, other |-> other, calls |-> <<>>]
    ELSE [self |-> set(self, other), other |-> MovedFrom(other), calls |-> <<>>]

\* operator=(Model&& other): sameObject is the test this == &other.
MoveAssign(self, other, sameObject) ==
    IF sameObject
    THEN [self |-> self, other |-> other, calls |-> <<>>]
    ELSE LET u == Unload(self)
         IN  [self |-> set(u.self, other), other |-> MovedFrom(other),
              calls |-> u.calls]

\* The copy from a plain value as it would be if it released the old contents.
CopyRawUnloadsFirst(self, model) ==
    [self |-> set(Unload(self).self, model), model |-> model,
     calls |-> Unload(self).calls]

\* Model(const ::Model&) and operator=(const ::Model&): set(model), nothing else.
CopyRaw(self, model) ==
    [self |-> set(self, model), model |-> model, calls |-> <<>>]

\* GetTransformedBoundingBox reads meshes[0] whenever meshCount > 0.
ReadsNullMeshes(self) == self.meshCount > 0 /\ self.meshes = Null

\* Model(): the body is empty, so the fields keep whatever the storage held:
\* zeros, the bytes of a ::Model the last operation passed by value or of the
\* object it worked on, or a copy of an object's fields.
Indeterminate ==
    {ZeroModel, last.arg, last.preA} \cup {obj[o] : o \in Objs}

\* ---------------------------------------------------------------- bookkeeping
Min(a, b) == IF a < b THEN a ELSE b

\* The UnloadModel tally after the calls `calls`.
Tally(unl, calls) ==
    [r \in Res |->
        Min(MaxUnloads,
            unl[r] + Cardinality({i \in 1..Len(calls) : r \in Pointers(calls[i])}))]

\* The record of an operation on slot a (and slot b, 0 for none) with argument
\* arg, taken in the state the operation starts in.
Op(name, a, b, arg, threw, calls) ==
    [op |-> name, a |-> a, b |-> b, preA |-> obj[a],
     preB |-> IF b = 0 THEN ZeroModel ELSE obj[b], wasFresh |-> fresh[a],
     arg |-> arg, threw |-> threw, calls |-> calls, nullRead |-> FALSE]

NoOp ==
    [op |-> "none", a |-> 0, b |-> 0, preA |-> ZeroModel, preB |-> ZeroModel,
     wasFresh |-> FALSE, arg |-> ZeroModel, threw |-> FALSE, calls |-> <<>>,
     nullRead |-> FALSE]

Written(o) == [fresh EXCEPT ![o] = FALSE]

\* -------------------------------------------------------------------- actions
InitLifecycle ==
    /\ live = [o \in Objs |-> FALSE]
    /\ obj = [o \in Objs |-> ZeroModel]
    /\ lib = <<>>
    /\ unloads = [r \in Res |-> 0]
    /\ last = NoOp
    /\ fresh = [o \in Objs |-> FALSE]
    /\ raw = ZeroModel

\* Model(fileName) / Model(mesh): a throwing constructor leaves no object
\* (a slot without an object holds ZeroModel).
ConstructLoad(o, m) ==
    /\ ~live[o]
    /\ Len(lib) < MaxRes
    /\ m \in LibModels(Len(lib) + 1)
    /\ LET res == Load(obj[o], m)
       IN  /\ obj' = [obj EXCEPT ![o] = IF res.threw THEN ZeroModel ELSE res.self]
           /\ live' = [live EXCEPT ![o] = ~res.threw]
           /\ last' = Op("ConstructLoad", o, 0, m, res.threw, <<>>)
           /\ lib' = Append(lib, IF res.threw THEN "failed" ELSE "loaded")
    /\ fresh' = Written(o)
    /\ UNCHANGED <<unloads, raw, gtbb>>

\* Load(fileName) / Load(mesh) on an existing object.
CallLoad(o, m) ==
    /\ live[o]
    /\ Len(lib) < MaxRes
    /\ m \in LibModels(Len(lib) + 1)
    /\ LET res == Load(obj[o], m)
       IN  /\ obj' = [obj EXCEPT ![o] = res.self]
           /\ last' = Op("Load", o, 0, m, res.threw, <<>>)
           /\ lib' = Append(lib, IF res.threw THEN "failed" ELSE "loaded")
    /\ fresh' = Written(o)
    /\ UNCHANGED <<live, unloads, raw, gtbb>>

\* Model(Model&& other) building slot o from the object in slot s.
CallMoveConstruct(o, s) ==
    /\ ~live[o]
    /\ live[s]
    /\ LET res == MoveConstruct(obj[o], obj[s])
       IN  /\ obj' = [obj EXCEPT ![o] = res.self, ![s] = res.other]
           /\ unloads' = Tally(unloads, res.calls)
           /\ last' = Op("MoveConstruct", o, s, ZeroModel, FALSE, res.calls)
    /\ live' = [live EXCEPT ![o] = TRUE]
    /\ fresh' = [fresh EXCEPT ![o] = FALSE, ![s] = FALSE]
    /\ UNCHANGED <<lib, raw, gtbb>>

\* a = std::move(b), a and b possibly the same object.
CallMoveAssign(a, b) ==
    /\ live[a]
    /\ live[b]
    /\ LET res == MoveAssign(obj[a], obj[b], a = b)
       IN  /\ obj' = IF a = b THEN [obj EXCEPT ![a] = res.self]
                     ELSE [obj EXCEPT ![a] = res.self, ![b] = res.other]
           /\ unloads' = Tally(unloads, res.calls)
           /\ last' = Op("MoveAssign", a, b, ZeroModel, FALSE, res.calls)
    /\ fresh' = IF a = b THEN fresh ELSE [fresh EXCEPT ![a] = FALSE, ![b] = FALSE]
    /\ UNCHANGED <<live, lib, raw, gtbb>>

\* An explicit Unload().
CallUnload(o) ==
    /\ live[o]
    /\ LET res == Unload(obj[o])
       IN  /\ obj' = [obj EXCEPT ![o] = res.self]
           /\ unloads' = Tally(unloads, res.calls)
           /\ last' = Op("Unload", o, 0, ZeroModel, FALSE, res.calls)
    /\ fresh' = Written(o)
    /\ UNCHANGED <<live, lib, raw, gtbb>>

\* ~Model(): Unload(), and the object is gone (a slot without an object
\* holds ZeroModel).
Destroy(o) ==
    /\ live[o]
    /\ LET res == Unload(obj[o])
       IN  /\ obj' = [obj EXCEPT ![o] = ZeroModel]
           /\ unloads' = Tally(unloads, res.calls)
           /\ last' = Op("Destroy", o, 0, ZeroModel, FALSE, res.calls)
    /\ live' = [live EXCEPT ![o] = FALSE]
    /\ fresh' = Written(o)
    /\ UNCHANGED <<lib, raw, gtbb>>

\* GetTransformedBoundingBox() on an object: whether it reads through null.
CallGetTransformedBoundingBox(o) ==
    /\ live[o]
    /\ last' = [Op("GetTransformedBoundingBox", o, 0, ZeroModel, FALSE, <<>>)
                    EXCEPT !.nullRead = ReadsNullMeshes(obj[o])]
    /\ UNCHANGED <<live, obj, lib, unloads, fresh, raw, gtbb>>

\* Model(): the object exists with indeterminate fields.
DefaultConstruct(o, garbage) ==
    /\ ~live[o]
    /\ garbage \in Indeterminate
    /\ obj' = [obj EXCEPT ![o] = garbage]
    /\ live' = [live EXCEPT ![o] = TRUE]
    /\ fresh' = [fresh EXCEPT ![o] = TRUE]
    /\ last' = Op("DefaultConstruct", o, 0, garbage, FALSE, <<>>)
    /\ UNCHANGED <<lib, unloads, raw, gtbb>>

\* The caller loads a plain ::Model with the library's own load call.
RawLoad(m) ==
    /\ Len(lib) < MaxRes
    /\ m \in LibModels(Len(lib) + 1)
    /\ raw' = m
    /\ lib' = Append(lib, "raw")
    /\ last' = [NoOp EXCEPT !.op = "RawLoad", !.arg = m]
    /\ UNCHANGED <<live, obj, unloads, fresh, gtbb>>

\* Model(const ::Model& model) with the caller's value.
ConstructRaw(o) ==
    /\ ~live[o]
    /\ LET res == CopyRaw(obj[o], raw)
       IN  /\ obj' = [obj EXCEPT ![o] = res.self]
           /\ raw' = res.model
           /\ unloads' = Tally(unloads, res.calls)
           /\ last' = Op("ConstructRaw", o, 0, raw, FALSE, res.calls)
    /\ live' = [live EXCEPT ![o] = TRUE]
    /\ fresh' = Written(o)
    /\ UNCHANGED <<lib, gtbb>>

\* operator=(const ::Model& model) with the caller's value.
AssignRaw(o) ==
    /\ live[o]
    /\ LET res == CopyRaw(obj[o], raw)
       IN  /\ obj' = [obj EXCEPT ![o] = res.self]
           /\ raw' = res.model
           /\ unloads' = Tally(unloads, res.calls)
           /\ last' = Op("AssignRaw", o, 0, raw, FALSE, res.calls)
    /\ fresh' = Written(o)
    /\ UNCHANGED <<live, lib, gtbb>>

\* The operations of an owning Model: loading, moving, unloading, destruction.
Owned ==
    \/ \E o \in Objs : \E m \in LoadOutcomes(Len(lib) + 1) : ConstructLoad(o, m)
    \/ \E o \in Objs : \E m \in LoadOutcomes(Len(lib) + 1) : CallLoad(o, m)
    \/ \E o \in Objs : \E s \in Objs \ {o} : CallMoveConstruct(o, s)
    \/ \E a, b \in Objs : CallMoveAssign(a, b)
    \/ \E o \in Objs : CallUnload(o)
    \/ \E o \in Objs : Destroy(o)

\* ------------------------------------------------ GetTransformedBoundingBox
\* BoundingBox bounds = {}.
ZeroBox == [min |-> <<0, 0, 0>>, max |-> <<0, 0, 0>>]

\* The boxes a mesh's own GetTransformedBoundingBox(transform) may return.
Boxes ==
    { [min |-> <<x, y, z>>, max |-> <<x + e[1], y + e[2], z + e[3]>>] :
        x \in Coords, y \in Coords, z \in Coords, e \in Extents }

\* The loop body as it would be with temp.y of the max decided by the x test.
AccumulateMaxYByX(bounds, tempBounds) ==
    [min |-> <<IF bounds.min[1] < tempBounds.min[1] THEN bounds.min[1]
                                                     ELSE tempBounds.min[1],
               IF bounds.min[2] < tempBounds.min[2] THEN bounds.min[2]
                                                     ELSE tempBounds.min[2],
               IF bounds.min[3] < tempBounds.min[3] THEN bounds.min[3]
                                                     ELSE tempBounds.min[3]>>,
     max |-> <<IF bounds.max[1] > tempBounds.max[1] THEN bounds.max[1]
                                                     ELSE tempBounds.max[1],
               IF bounds.max[1] > tempBounds.max[1] THEN bounds.max[2]
                                                     ELSE tempBounds.max[2],
               IF bounds.max[3] > tempBounds.max[3] THEN bounds.max[3]
                                                     ELSE tempBounds.max[3]>>]

\* One pass of the loop body after tempBounds is computed: temp takes the
\* smaller min components, then the larger max components.
Accumulate(bounds, tempBounds) ==
    LET tempMin ==
            <<IF bounds.min[1] < tempBounds.min[1] THEN bounds.min[1]
                                                    ELSE tempBounds.min[1],
              IF bounds.min[2] < tempBounds.min[2] THEN bounds.min[2]
                                                    ELSE tempBounds.min[2],
              IF bounds.min[3] < tempBounds.min[3] THEN bounds.min[3]
                                                    ELSE tempBounds.min[3]>>
        tempMax ==
            <<IF bounds.max[1] > tempBounds.max[1] THEN bounds.max[1]
                                                    ELSE tempBounds.max[1],
              IF bounds.max[2] > tempBounds.max[2] THEN bounds.max[2]
                                                    ELSE tempBounds.max[2],
              IF bounds.max[3] > tempBounds.max[3] THEN bounds.max[3]
                                                    ELSE tempBounds.max[3]>>
    IN  [min |-> tempMin, max |-> tempMax]

\* The call meshes[i].GetTransformedBoundingBox(transform) returning box.
MeshCall(i, transform, box) == [i |-> i, transform |-> transform, box |-> box]

\* The models the query runs on: meshes points to meshCount meshes.
GtbbInputs ==
    { m \in { [ZeroModel EXCEPT !.transform = t, !.meshCount = n, !.meshes = p] :
                t \in Transforms, n \in -1..MaxMeshes, p \in {Null, 1} } :
        ~ReadsNullMeshes(m) }

InitGtbb ==
    /\ InitLifecycle
    /\ gtbb \in { [pc |-> "entry", self |-> m, entry |-> m, i |-> 0,
                   bounds |-> ZeroBox, calls |-> <<>>, result |-> ZeroBox] :
                   m \in GtbbInputs }

\* bounds = {}; if (meshCount > 0) bounds = meshes[0]'s transformed box.
GtbbEnter(box) ==
    /\ gtbb.pc = "entry"
    /\ gtbb' = IF gtbb.self.meshCount > 0
               THEN [gtbb EXCEPT !.pc = "loop", !.bounds = box, !.i = 1,
                                 !.calls = <<MeshCall(0, gtbb.self.transform, box)>>]
               ELSE [gtbb EXCEPT !.pc = "return", !.bounds = ZeroBox]
    /\ UNCHANGED lifecycle

\* One iteration of for (int i = 1; i < meshCount; i++).
GtbbIterate(box) ==
    /\ gtbb.pc = "loop"
    /\ gtbb.i < gtbb.self.meshCount
    /\ gtbb' = [gtbb EXCEPT
                  !.bounds = Accumulate(gtbb.bounds, box),
                  !.calls = Append(gtbb.calls,
                                   MeshCall(gtbb.i, gtbb.self.transform, box)),
                  !.i = gtbb.i + 1]
    /\ UNCHANGED lifecycle

\* The loop condition fails.
GtbbLoopEnd ==
    /\ gtbb.pc = "loop"
    /\ ~(gtbb.i < gtbb.self.meshCount)
    /\ gtbb' = [gtbb EXCEPT !.pc = "return"]
    /\ UNCHANGED lifecycle

\* return bounds.
GtbbReturn ==
    /\ gtbb.pc = "return"
    /\ gtbb' = [gtbb EXCEPT !.pc = "done", !.result = gtbb.bounds]
    /\ UNCHANGED lifecycle

NextGtbb ==
    \/ \E box \in Boxes : GtbbEnter(box)
    \/ \E box \in Boxes : GtbbIterate(box)
    \/ GtbbLoopEnd
    \/ GtbbReturn

SpecGtbb == InitGtbb /\ [][NextGtbb]_vars

\* ------------------------------------------------------------ specifications
GtbbIdle == [pc |-> "none"]

Init == InitLifecycle /\ gtbb = GtbbIdle

Next == Owned

Spec == Init /\ [][Next]_vars

\* The owning operations and the bounding-box query.
NextQuery ==
    \/ Owned
    \/ \E o \in Objs : CallGetTransformedBoundingBox(o)

SpecQuery == Init /\ [][NextQuery]_vars

\* Loading alone, over every value the library may return.
NextLoad ==
    \/ \E o \in Objs : \E m \in LibModels(Len(lib) + 1) : ConstructLoad(o, m)
    \/ \E o \in Objs : \E m \in LibModels(Len(lib) + 1) : CallLoad(o, m)
    \/ \E o \in Objs : Destroy(o)

SpecLoad == Init /\ [][NextLoad]_vars

\* Default construction among loading, move assignment, unloading, destruction.
NextDefault ==
    \/ \E o \in Objs : \E g \in Indeterminate : DefaultConstruct(o, g)
    \/ \E o \in Objs : \E m \in LoadOutcomes(Len(lib) + 1) : ConstructLoad(o, m)
    \/ \E a, b \in Objs : CallMoveAssign(a, b)
    \/ \E o \in Objs : CallUnload(o)
    \/ \E o \in Objs : Destroy(o)

SpecDefault == Init /\ [][NextDefault]_vars

\* Models built and assigned from plain ::Model values.
NextRaw ==
    \/ \E m \in LoadOutcomes(Len(lib) + 1) : RawLoad(m)
    \/ \E o \in RawObjs : ConstructRaw(o)
    \/ \E o \in RawObjs : AssignRaw(o)
    \/ \E o \in RawObjs : CallUnload(o)
    \/ \E o \in RawObjs : Destroy(o)

SpecRaw == Init /\ [][NextRaw]_vars

\* -------------------------------------------------------------------- claims
\* Whether Unload has something to release in m.
Holds(m) == m.meshes # Null \/ m.materials # Null

\* Counts 0 and pointers null, the transform left alone.
Emptied(m) == [ZeroModel EXCEPT !.transform = m.transform]

\* The live Model objects with a pointer into allocation r.
Holders(r) == {o \in Objs : live[o] /\ r \in Pointers(obj[o])}

\* C1: Load(fileName), Load(mesh) and the two loading constructors throw
\* exactly when the model the library returned is not ready, judged on the
\* fields once stored in the object; when it is ready they return normally
\* and the object's nine fields equal the loaded model's.
C1_LoadThrowsIffNotReady ==
    last.op \in {"ConstructLoad", "Load"} =>
        /\ last.threw = ~IsModelReady(last.arg)
        /\ last.op = "Load" => obj[last.a] = last.arg
        /\ ~last.threw => live[last.a] /\ obj[last.a] = last.arg
        /\ (last.op = "ConstructLoad" /\ last.threw) => ~live[last.a]

\* C1 witness: Load on an object that held a ready model throws on a model
\* with all three arrays present and meshCount 0.
C1_Witness ==
    /\ last.op = "Load"
    /\ last.threw
    /\ IsModelReady(last.preA)
    /\ last.arg.meshes # Null /\ last.arg.materials # Null
    /\ last.arg.meshMaterial # Null /\ last.arg.meshCount = 0

\* C2: after Model(Model&& other) the new object's nine fields are those
\* other had, other has counts 0 and pointers null with its transform
\* unchanged, and UnloadModel was not called.
C2_MoveConstructTransfers ==
    last.op = "MoveConstruct" =>
        /\ obj[last.a] = last.preB
        /\ obj[last.b] = Emptied(last.preB)
        /\ last.calls = <<>>

\* C2 witness: a ready model with a skeleton was move-constructed from.
C2_Witness ==
    /\ last.op = "MoveConstruct"
    /\ IsModelReady(last.preB)
    /\ last.preB.bones # Null
    /\ live[last.a] /\ live[last.b]

\* C3: a = std::move(b) on distinct objects calls UnloadModel on a's old
\* contents once if a's meshes or materials was non-null and not at all
\* otherwise, gives a every field value b had, and leaves b with counts 0 and
\* pointers null; on one and the same object it changes no field and does
\* not call UnloadModel.
C3_MoveAssignReleasesThenTransfers ==
    last.op = "MoveAssign" =>
        IF last.a # last.b
        THEN /\ last.calls = IF Holds(last.preA) THEN <<last.preA>> ELSE <<>>
             /\ obj[last.a] = last.preB
             /\ obj[last.b] = Emptied(last.preB)
        ELSE /\ last.calls = <<>>
             /\ obj[last.a] = last.preA

\* C3 witness: a ready model was move-assigned over another ready model.
C3_Witness ==
    /\ last.op = "MoveAssign"
    /\ last.a # last.b
    /\ IsModelReady(last.preA)
    /\ IsModelReady(last.preB)
    /\ Len(last.calls) = 1

\* What one Unload, explicit or from the destructor, has done.
C4_UnloadState ==
    last.op \in {"Unload", "Destroy"} =>
        /\ last.calls = IF Holds(last.preA) THEN <<last.preA>> ELSE <<>>
        /\ last.op = "Unload" =>
              obj[last.a] = IF Holds(last.preA)
                            THEN [last.preA EXCEPT !.meshes = Null, !.materials = Null]
                            ELSE last.preA

\* A step from an Unload to an Unload or destruction of the same object.
C4_SecondUnload ==
    ( /\ last.op = "Unload"
      /\ last'.op \in {"Unload", "Destroy"}
      /\ last'.a = last.a )
    => last'.calls = <<>> /\ unloads' = unloads

\* C4: Unload (and the destructor, which runs it) calls UnloadModel once on
\* the object's contents when meshes or materials is non-null, leaving both
\* null, and does nothing when both are null; an Unload or a destruction that
\* directly follows an Unload of the same object makes no UnloadModel call.
C4_UnloadOnceThenIdle == []C4_UnloadState /\ [][C4_SecondUnload]_vars

\* C4 witness: an object is destroyed after an Unload released its ready
\* model (meshMaterial still set, meshes and materials null), without a call.
C4_Witness ==
    /\ last.op = "Destroy"
    /\ last.preA.meshMaterial # Null
    /\ ~Holds(last.preA)
    /\ last.calls = <<>>
    /\ unloads[last.preA.meshMaterial] = 1

\* C5: over loading, move construction, move assignment, Unload and
\* destruction, every allocation is passed to UnloadModel at most once and at
\* most one live Model holds pointers into it.
C5_NoDoubleRelease ==
    \A r \in Res : unloads[r] <= 1 /\ Cardinality(Holders(r)) <= 1

\* C5 witness: one allocation has been released by a move assignment while a
\* second one, moved between objects, is held by exactly one live object.
C5_Witness ==
    /\ last.op = "MoveAssign"
    /\ last.a # last.b
    /\ \E r, q \in Res :
          /\ r # q
          /\ unloads[r] = 1 /\ Holders(r) = {}
          /\ unloads[q] = 0 /\ Holders(q) = {last.a}

\* C6: once every Model object is destroyed, each allocation that a Load
\* stored successfully in a Model has been passed to UnloadModel.
C6_NoLeak ==
    (\A o \in Objs : ~live[o]) =>
        \A r \in 1..Len(lib) : lib[r] = "loaded" => unloads[r] >= 1

\* The least and the greatest number of a set.
Least(S) == CHOOSE x \in S : \A y \in S : x <= y
Greatest(S) == CHOOSE x \in S : \A y \in S : x >= y

\* C7: GetTransformedBoundingBox on a model with meshCount >= 1 asks meshes
\* 0 .. meshCount-1, once each and in order, for their box under the model's
\* transform and returns the component-wise minimum of the min corners and
\* maximum of the max corners; with meshCount <= 0 it asks no mesh and
\* returns the all-zero box; the model's fields are not changed.
C7_BoundingBoxIsUnionOfMeshBoxes ==
    gtbb.pc = "done" =>
        /\ gtbb.self = gtbb.entry
        /\ IF gtbb.self.meshCount >= 1
           THEN /\ Len(gtbb.calls) = gtbb.self.meshCount
                /\ \A k \in 1..Len(gtbb.calls) :
                      /\ gtbb.calls[k].i = k - 1
                      /\ gtbb.calls[k].transform = gtbb.self.transform
                /\ \A c \in 1..3 :
                      /\ gtbb.result.min[c] =
                            Least({gtbb.calls[k].box.min[c] : k \in 1..Len(gtbb.calls)})
                      /\ gtbb.result.max[c] =
                            Greatest({gtbb.calls[k].box.max[c] : k \in 1..Len(gtbb.calls)})
           ELSE /\ gtbb.calls = <<>>
                /\ gtbb.result = ZeroBox

\* C7 witness: three meshes, and neither corner of the result is the corner
\* of any single mesh.
C7_Witness ==
    /\ gtbb.pc = "done"
    /\ gtbb.self.meshCount = 3
    /\ \A k \in 1..Len(gtbb.calls) :
          /\ gtbb.result.min # gtbb.calls[k].box.min
          /\ gtbb.result.max # gtbb.calls[k].box.max

\* C8: in every state the owning operations reach, a live Model with
\* meshCount > 0 has meshes non-null and one with materialCount > 0 has
\* materials non-null, and GetTransformedBoundingBox never reads through a
\* null meshes pointer.
C8_CountsAgreeWithPointers ==
    /\ \A o \in Objs : live[o] => CountsAgree(obj[o])
    /\ last.op = "GetTransformedBoundingBox" => ~last.nullRead

\* C9: right after Model() the object has meshes and materials null and its
\* counts 0, and an Unload, a destruction or a move assignment into an object
\* that still has its default-constructed contents calls UnloadModel not once.
C9_DefaultOwnsNothing ==
    /\ last.op = "DefaultConstruct" =>
          /\ obj[last.a].meshes = Null /\ obj[last.a].materials = Null
          /\ obj[last.a].meshCount = 0 /\ obj[last.a].materialCount = 0
          /\ obj[last.a].boneCount = 0
    /\ (last.op \in {"Unload", "Destroy", "MoveAssign"} /\ last.wasFresh) =>
          last.calls = <<>>

\* What a construction or assignment from a plain ::Model has done.
C10_RawState ==
    last.op \in {"ConstructRaw", "AssignRaw"} =>
        /\ obj[last.a] = last.arg
        /\ raw = last.arg
        /\ Pointers(obj[last.a]) = Pointers(raw)
        /\ last.calls = <<>>

\* A step that copies a plain ::Model, or that unloads or destroys the copy.
C10_RawStep ==
    /\ last'.op \in {"ConstructRaw", "AssignRaw"} => unloads' = unloads
    /\ ( /\ last.op \in {"ConstructRaw", "AssignRaw"}
         /\ last'.op \in {"Unload", "Destroy"}
         /\ last'.a = last.a
         /\ Holds(last.arg) )
       => last'.calls = <<last.arg>>

\* C10: Model(const ::Model&) and operator=(const ::Model&) store the
\* argument's nine fields, leave the argument as it was and call UnloadModel
\* not once, whatever the destination held, so the Model and the argument
\* hold the same pointers; an Unload or a destruction that directly follows
\* passes exactly the copied fields to UnloadModel when the copied meshes or
\* materials is non-null.
C10_RawCopyIsShallow == []C10_RawState /\ [][C10_RawStep]_vars

\* C10 witness: a plain model was assigned over a Model that held another
\* allocation, which has not been passed to UnloadModel.
C10_Witness ==
    /\ last.op = "AssignRaw"
    /\ Holds(last.preA)
    /\ Holds(last.arg)
    /\ last.preA.meshes # last.arg.meshes
    /\ last.preA.meshes # Null
    /\ unloads[last.preA.meshes] = 0

====
